---- MODULE Spec2Model ----
(***************************************************************************)
(* reolink-timelapse: the NVR session manager (nvr.py, class ReolinkNVR),   *)
(* the snapshot capture loop (capture.py, run_capture) and the stitch step *)
(* (stitch.py, run_stitch).                                                *)
(*                                                                         *)
(* Coroutines run under asyncio: the code between two awaits is one atomic *)
(* step.  Every action below is one such step: it starts where a coroutine *)
(* is resumed (a response arrives, a sleep ends, a lock is handed over)    *)
(* and runs to the next await or to the end of the call.                   *)
(***************************************************************************)
EXTENDS Integers, Sequences, FiniteSets, TLC

\* ---------------------------------------------------------------- constants
TOKEN_REFRESH_MARGIN == 300
LOGIN_RETRIES == 5
LOGIN_RETRY_DELAY == 30
DEFAULT_TTL == 3600

\* ------------------------------------------------------------------- bounds
\* How often the clock advances, how many tokens the device issues, how many
\* passes run_capture makes and over how many channels.
MaxTicks == 2
MaxLogins == 2
MaxPasses == 2
NumChannels == 2
\* How many frames a channel directory holds at most, the largest sample
\* stride, and how many channel directories run_stitch finds at most.
MaxFrames == 3
MaxStride == 2
MaxDirs == 2
\* How far the wall clock runs, how often it is set back, and how many
\* capture runs write into one channel directory.
MaxWall == 12
MaxSetBacks == 1
MaxRuns == 2

\* The coroutines that use one ReolinkNVR object.  "main" is the coroutine
\* that owns the object (cmd_capture: async with ReolinkNVR(...) as nvr).
Tasks == {"main", "t2", "t3"}
Main == "main"
NoTask == "none"
NoToken == 0

\* Lease durations the device reports in Token.leaseTime (or the default).
Leases == {DEFAULT_TTL, 200}
\* The clock (time.monotonic) advances by one of these between steps.
TickSteps == {1, DEFAULT_TTL - TOKEN_REFRESH_MARGIN}
\* time.monotonic() when the object is built: seconds since boot (the host
\* has just booted, or has been up for a while).
InitClocks == {10, 5000}
\* len(resp.content) of a snapshot answered with an image content type.
ImageSizes == {0, 2}
Channels == 1..NumChannels

VARIABLES
  \* ReolinkNVR fields
  token, token_time, token_ttl, login_lock, waiters, client_open,
  \* coroutine state: where each task is suspended, the command its call
  \* sends once it has a token, and its locals
  pc, cmd, tok, attempt, slept, out_tok,
  \* the device and the clock
  sessions, nextTok, now, ticks,
  \* run_capture
  run, stop, ch, passNo, counts, total_bytes, files, attempted, nAttempts,
  nDone, frame_dirs, stopIn,
  \* history: what the last step did (ev) and what has happened so far
  ev, invalidated, logoutSent, closeRes, closeLogouts, closeOutcome, closeHeld,
  \* run_stitch: its arguments and what it finds on disk (frames_base exists
  \* or not, the frame names in each channel directory), where it is, the
  \* locals of _encode_channel, the files it has made, and how the encoder
  \* last ended
  frames_base, channel_dirs, every_n_frames, stitch, st_idx, selected,
  tmp_files, videos, st_cause,
  \* one channel directory over several capture runs: the wall clock
  \* (datetime.now()), the names written in capture order, the names in the
  \* directory, whether time has passed since the last capture, and how often
  \* the clock was set back and run_capture was started
  wall, written, frame_dir, elapsed, setbacks, runs,
  \* get_online_channels: the device's channel status, where the call is,
  \* the list `online` it builds, the channel it is enriching and the
  \* name that _get_channel_detail has read for it
  dev_status, listing, listed, lst_i, det_name

nvrVars == <<token, token_time, token_ttl, login_lock, waiters, client_open,
             pc, cmd, tok, attempt, slept, out_tok, ev, invalidated, logoutSent,
             closeRes, closeLogouts, closeOutcome, closeHeld>>
devVars == <<sessions, nextTok>>
clockVars == <<now, ticks>>
loopVars == <<run, stop, ch, passNo, counts, total_bytes, files, attempted,
              nAttempts, nDone, frame_dirs, stopIn>>
stitchVars == <<frames_base, channel_dirs, every_n_frames, stitch, st_idx,
                selected, tmp_files, videos, st_cause>>
\* What the session manager and the capture loop leave alone.
frameVars == <<wall, written, frame_dir, elapsed, setbacks, runs>>
offlineVars == <<stitchVars, frameVars>>
listVars == <<dev_status, listing, listed, lst_i, det_name>>
vars == <<nvrVars, devVars, clockVars, loopVars, offlineVars, listVars>>

\* ------------------------------------------------------- what a step did
\* What _ensure_token saw when it decided: whether a token was held (and
\* which), and
\* slack = (ttl - margin) - age, the time left before the refresh boundary;
\* whether the caller had queued for the lock; whether the held credential
\* had been invalidated by an auth failure and not replaced since.
NoObs == [set |-> FALSE, held |-> FALSE, token |-> NoToken, slack |-> 0,
          waited |-> FALSE, inval |-> FALSE]

\* ret: _ensure_token returned the held token without logging in.
\* start: a login sequence started.  login: how a Login request was handled
\* ("retry", "failed", "stored") after the answer `after` to the request
\* number `attempt` of the sequence, by the capture loop or not.  unlocked: a credential field was written by a task that
\* did not hold the lock.  logout: how the Logout request that _login sent
\* ended.  authFor: the token of the Snap request whose auth failure reset
\* the issue time.  began: the channel whose capture the loop began,
\* stopped: with the stop event already set; paused: the loop went to sleep
\* between two channels.
NoEv == [ret |-> NoObs, start |-> NoObs, login |-> "none", after |-> "none",
         attempt |-> 0, byLoop |-> FALSE, unlocked |-> FALSE,
         logout |-> "none", authFor |-> NoToken, began |-> 0,
         stopped |-> FALSE, paused |-> FALSE]

\* ------------------------------------------------- the object as one record
\* The session manager's steps are written as functions from the state of
\* the object (and of the coroutines using it) to its next state, so that a
\* step that makes several calls in a row composes them.
Cur ==
  [token |-> token, token_time |-> token_time, token_ttl |-> token_ttl,
   login_lock |-> login_lock, waiters |-> waiters, client_open |-> client_open,
   pc |-> pc, cmd |-> cmd, tok |-> tok, attempt |-> attempt, slept |-> slept,
   out_tok |-> out_tok,
   ev |-> NoEv, invalidated |-> invalidated, logoutSent |-> logoutSent,
   closeRes |-> closeRes, closeLogouts |-> closeLogouts,
   closeOutcome |-> closeOutcome, closeHeld |-> closeHeld]

Apply(s) ==
  /\ token' = s.token
  /\ token_time' = s.token_time
  /\ token_ttl' = s.token_ttl
  /\ login_lock' = s.login_lock
  /\ waiters' = s.waiters
  /\ client_open' = s.client_open
  /\ pc' = s.pc
  /\ cmd' = s.cmd
  /\ tok' = s.tok
  /\ attempt' = s.attempt
  /\ slept' = s.slept
  /\ out_tok' = s.out_tok
  /\ ev' = s.ev
  /\ invalidated' = s.invalidated
  /\ logoutSent' = s.logoutSent
  /\ closeRes' = s.closeRes
  /\ closeLogouts' = s.closeLogouts
  /\ closeOutcome' = s.closeOutcome
  /\ closeHeld' = s.closeHeld

Observe(s, clk, w) ==
  [set |-> TRUE, held |-> s.token # NoToken, token |-> s.token,
   slack |-> (s.token_ttl - TOKEN_REFRESH_MARGIN) - (clk - s.token_time),
   waited |-> w, inval |-> s.invalidated]

\* A write of the credential fields by task t is noted when t does not hold
\* the lock.
Wrote(t, s) == [s EXCEPT !.ev.unlocked = @ \/ s.login_lock # t]

\* ------------------------------------------------------------ _ensure_token
\* The fast-path test without the refresh margin.
IsFreshNoMargin(age, ttl) == age <= ttl

\* nvr.py 128: the fast-path test.
IsFresh(age, ttl) == age <= ttl - TOKEN_REFRESH_MARGIN

\* nvr.py 134: the re-check under the lock.
IsStale(age, ttl) == age > ttl - TOKEN_REFRESH_MARGIN

\* A lock that never makes a caller wait.
LockNeverBlocks(s) == TRUE

\* nvr.py 132: asyncio.Lock.acquire takes the lock without suspending only
\* when it is free and nobody is queued for it (FIFO hand-over).
LockFree(s) == s.login_lock = NoTask /\ s.waiters = <<>>

\* Where a call awaits the answer to its first request: capture_snapshot
\* (nvr.py 204), get_online_channels (146), _get_channel_detail (175).
ReqPc(c) ==
  IF c = "Snap" THEN "snap_req"
  ELSE IF c = "GetChannelstatus" THEN "status_req" ELSE "osd_req"

\* nvr.py 129/136 then 203-208 (145-150, 173-179): _ensure_token returns the
\* held token and its caller sends its request with it.
ReturnToken(t, s, clk, w) ==
  [s EXCEPT !.tok[t] = s.token, !.pc[t] = ReqPc(s.cmd[t]),
            !.ev.ret = Observe(s, clk, w)]

\* nvr.py 65-68: after _logout, _login sends its first Login request.
FirstAttempt(t, s) == [s EXCEPT !.pc[t] = "login_req", !.attempt[t] = 1]

\* A _logout that never sends anything.
LogoutNeverSends(s) == FALSE

\* nvr.py 37-38: _logout does nothing when no token is held.
LogoutSends(s) == s.token # NoToken

\* A _logout that sends the Logout request and keeps the token.
LogoutKeepsToken(t, s, reqpc) ==
  Wrote(t, [s EXCEPT !.out_tok[t] = s.token, !.pc[t] = reqpc,
                     !.logoutSent = @ \cup {s.token}])

\* nvr.py 39-48: _logout forgets the token, then sends the Logout request
\* for it and awaits the answer at `reqpc`.
LogoutBegin(t, s, reqpc) ==
  Wrote(t, [s EXCEPT !.out_tok[t] = s.token, !.token = NoToken,
                     !.token_time = 0, !.pc[t] = reqpc,
                     !.logoutSent = @ \cup {s.token},
                     !.invalidated = FALSE])

\* nvr.py 65-68: _logout, called by _login.
LogoutThenLogin(t, s) ==
  IF LogoutSends(s) THEN LogoutBegin(t, s, "logout_req")
  ELSE FirstAttempt(t, s)

\* A _login that does not log out first.
LoginSkipsLogout(t, s) == FirstAttempt(t, s)

\* nvr.py 65: _login starts by logging out the held session.
LoginPrelude(t, s) == LogoutThenLogin(t, s)

\* nvr.py 59-65: a login sequence starts.
Login(t, s, clk, w) ==
  LoginPrelude(t, [s EXCEPT !.ev.start = Observe(s, clk, w)])

\* nvr.py 132-136: the body of "async with self._login_lock", entered by t;
\* w: t had to queue for the lock.
LockedSection(t, s, clk, w) ==
  IF s.token = NoToken \/ IsStale(clk - s.token_time, s.token_ttl)
  THEN Login(t, [s EXCEPT !.login_lock = t], clk, w)
  ELSE ReturnToken(t, s, clk, w)

\* nvr.py 120-136, called from capture_snapshot (203).
EnsureToken(t, s, clk) ==
  IF s.token # NoToken /\ IsFresh(clk - s.token_time, s.token_ttl)
  THEN ReturnToken(t, s, clk, FALSE)
  ELSE IF LockFree(s)
       THEN LockedSection(t, s, clk, FALSE)
       ELSE [s EXCEPT !.waiters = Append(@, t), !.pc[t] = "wait_lock"]

\* The end of "async with" and of the call: the lock is released and the
\* locals of the call are gone.
Release(t, s) == [s EXCEPT !.login_lock = NoTask]
Leave(t, s) ==
  [s EXCEPT !.tok[t] = NoToken, !.attempt[t] = 0, !.slept[t] = 0,
            !.out_tok[t] = NoToken]


\* ------------------------------------------------------------- run_capture
\* A _capture_one without its try/except.
CaptureOneCatchesNothing(result) == FALSE

\* capture.py 48-51: _capture_one catches every Exception of the capture
\* (a failed snapshot and a failed login alike) and returns 0.
CaptureOneCatches(result) == TRUE

\* A while loop that does not test the stop event.
LoopIgnoresStop(stopped) == TRUE

\* capture.py 76: while not stop_event.is_set().
LoopContinues(stopped) == ~stopped

\* The display name of a channel (the "name" its dict carries): the same on
\* every channel.
ChannelName(c) == "cam"

\* A directory name without the channel id.
DirNameNoId(c) == <<"ch", 0, ChannelName(c)>>

\* capture.py 66-68: the directory of channel c is named ch<cid>_<name>.
DirName(c) == <<"ch", c, ChannelName(c)>>

\* capture.py 86-87 and 80: after a capture the loop pauses unless the stop
\* event is set; the for loop itself never looks at the stop event.
\* "pause": await asyncio.sleep(0.5); "next": the next channel at once;
\* "wait": the pass is over, wait_for(stop_event.wait(), interval).
AfterCapture(stopped, c) ==
  IF ~stopped THEN "pause" ELSE IF c < NumChannels THEN "next" ELSE "wait"

\* A loop that runs each channel's capture in a task of its own and goes on
\* without awaiting it.
CaptureInOwnTask(c) == IF c = 1 THEN "main" ELSE IF c = 2 THEN "t2" ELSE "t3"

\* capture.py 82: "nbytes = await _capture_one(...)": the capture runs in
\* the loop's own coroutine, which is suspended until it has ended.
CaptureTask(c) == Main

\* capture.py 80-82: the for loop takes channel c and starts its capture
\* (_capture_one -> capture_snapshot -> _ensure_token).
BeginCapture(s, c) ==
  /\ Apply(EnsureToken(CaptureTask(c),
                       [s EXCEPT !.ev.began = c, !.ev.stopped = stop], now))
  /\ ch' = c
  /\ attempted' = IF c = 1 THEN <<1>> ELSE Append(attempted, c)
  /\ nAttempts' = nAttempts + 1

\* capture.py 42-51 and 83-87: the capture of channel ch has ended with
\* `result`; s is the object's state at that point.
LoopStep(s, result, nbytes) ==
  IF result # "ok" /\ ~CaptureOneCatches(result)
  THEN /\ Apply([s EXCEPT !.pc[Main] = "idle"])
       /\ run' = "raised"
       /\ UNCHANGED <<stop, ch, passNo, counts, total_bytes, files, attempted,
                      nAttempts, nDone, frame_dirs, stopIn>>
  ELSE LET got == IF result = "ok" THEN nbytes ELSE 0
           nxt == AfterCapture(stop, ch)
       IN /\ files' = IF result = "ok" THEN [files EXCEPT ![ch] = @ + 1]
                      ELSE files
          /\ counts' = IF got # 0 THEN [counts EXCEPT ![ch] = @ + 1]
                       ELSE counts
          /\ total_bytes' = [total_bytes EXCEPT ![ch] = @ + got]
          /\ nDone' = nDone + 1
          /\ UNCHANGED <<run, stop, passNo, frame_dirs, stopIn>>
          /\ IF nxt = "next"
             THEN BeginCapture(s, ch + 1)
             ELSE /\ Apply([s EXCEPT !.pc[Main] = nxt,
                                     !.ev.paused = (nxt = "pause")])
                  /\ UNCHANGED <<ch, attempted, nAttempts>>

\* nvr.py 166: ch.setdefault("name", f"ch{ch['channel']}") gives the
\* fallback name to a channel dict that has no "name" key (<<>>) and leaves
\* a name that is there.
SetDefault(name, c) == IF name = <<>> THEN <<"ch", c>> ELSE name

\* A loop without its try/except.
EnrichCatchesNothing(ok) == ok

\* nvr.py 161-165: the detail fetch of one channel is inside try/except
\* Exception.
EnrichCatches(ok) == TRUE

\* nvr.py 160-169: the detail fetch of the channel listed[lst_i] has ended
\* (ok: with the OSD name `name`); the loop goes on to the next online
\* channel (_get_channel_detail -> _ensure_token) or the list is returned.
EnrichDone(s, ok, name) ==
  LET e == listed[lst_i]
      upd == IF ok THEN [e EXCEPT !.name = name, !.enriched = "yes"]
             ELSE [e EXCEPT !.enriched = "failed"]
      new == [upd EXCEPT !.name = SetDefault(upd.name, e.channel)]
      done == [s EXCEPT !.pc[Main] = "idle", !.cmd[Main] = "Snap"]
  IN /\ UNCHANGED dev_status
     /\ det_name' = <<>>
     /\ IF ~EnrichCatches(ok)
        THEN /\ listing' = "raised"
             /\ UNCHANGED <<listed, lst_i>>
             /\ Apply(done)
        ELSE /\ listed' = [listed EXCEPT ![lst_i] = new]
             /\ IF lst_i < Len(listed)
                THEN /\ lst_i' = lst_i + 1
                     /\ UNCHANGED listing
                     /\ Apply(EnsureToken(Main, s, now))
                ELSE /\ listing' = "returned"
                     /\ UNCHANGED lst_i
                     /\ Apply(done)

\* nvr.py 145 and 173: _ensure_token raised in get_online_channels, which
\* does not catch it, or in _get_channel_detail.
ListLoginFailed(s) ==
  IF s.cmd[Main] = "GetChannelstatus"
  THEN /\ listing' = "raised"
       /\ UNCHANGED <<dev_status, listed, lst_i, det_name>>
       /\ Apply([s EXCEPT !.pc[Main] = "idle", !.cmd[Main] = "Snap"])
  ELSE EnrichDone(s, FALSE, <<>>)

\* The end of a call of task t that was waiting for a token or for its
\* snapshot: back in run_capture when t is the capture loop, back in
\* get_online_channels when t is listing the channels, else back in the
\* caller.
Return(t, s, result, nbytes) ==
  IF t = Main /\ run = "running"
  THEN LoopStep(Leave(t, s), result, nbytes) /\ UNCHANGED listVars
  ELSE IF t = Main /\ listing = "running"
  THEN ListLoginFailed(Leave(t, s)) /\ UNCHANGED loopVars
  ELSE /\ Apply([Leave(t, s) EXCEPT !.pc[t] = "idle"])
       /\ UNCHANGED <<loopVars, listVars>>

\* ----------------------------------------------------------------- actions
InitAt(clocks) ==
  /\ token = NoToken
  /\ token_time = 0
  /\ token_ttl = DEFAULT_TTL
  /\ login_lock = NoTask
  /\ waiters = <<>>
  /\ client_open = TRUE
  /\ pc = [t \in Tasks |-> "idle"]
  /\ cmd = [t \in Tasks |-> "Snap"]
  /\ tok = [t \in Tasks |-> NoToken]
  /\ attempt = [t \in Tasks |-> 0]
  /\ slept = [t \in Tasks |-> 0]
  /\ out_tok = [t \in Tasks |-> NoToken]
  /\ sessions = {}
  /\ nextTok = 1
  /\ now \in clocks
  /\ ticks = 0
  /\ run = "off"
  /\ stop = FALSE
  /\ ch = 0
  /\ passNo = 0
  /\ counts = [c \in Channels |-> 0]
  /\ total_bytes = [c \in Channels |-> 0]
  /\ files = [c \in Channels |-> 0]
  /\ attempted = <<>>
  /\ nAttempts = 0
  /\ nDone = 0
  /\ frame_dirs = {}
  /\ stopIn = "none"
  /\ ev = NoEv
  /\ invalidated = FALSE
  /\ logoutSent = {}
  /\ closeRes = "none"
  /\ closeLogouts = 0
  /\ closeOutcome = "none"
  /\ closeHeld = "unknown"

\* run_stitch has not been called: nothing on disk matters.
StitchOff ==
  /\ frames_base = FALSE
  /\ channel_dirs = <<>>
  /\ every_n_frames = 1
  /\ stitch = "off"
  /\ st_idx = 0
  /\ selected = <<>>
  /\ tmp_files = {}
  /\ videos = {}
  /\ st_cause = "none"

\* get_online_channels has not been called.
ListOff ==
  /\ dev_status = <<>>
  /\ listing = "off"
  /\ listed = <<>>
  /\ lst_i = 0
  /\ det_name = <<>>

\* The channel directory is empty and no run has started.
FramesOff ==
  /\ written = <<>>
  /\ frame_dir = {}
  /\ elapsed = TRUE
  /\ setbacks = 0
  /\ runs = 0
  /\ wall = 9

\* nvr.py 18-27: the object as __init__ leaves it, soon after boot (the
\* clock then advances by Tick).
Init == InitAt({10}) /\ StitchOff /\ FramesOff /\ ListOff

\* The same, at either clock (the clock does not advance during a run).
InitCapture == InitAt(InitClocks) /\ StitchOff /\ FramesOff /\ ListOff

\* A coroutine other than the capture loop calls capture_snapshot
\* (nvr.py 202-203).  The object is used inside "async with" only: no call
\* starts once __aexit__ has begun to close it.
Call(t) ==
  /\ pc[t] = "idle"
  /\ UNCHANGED <<offlineVars, listVars>>
  /\ client_open
  /\ closeHeld = "unknown"
  /\ run = "off"
  /\ Apply(EnsureToken(t, Cur, now))
  /\ UNCHANGED <<devVars, clockVars, loopVars>>

\* nvr.py 132: the lock is handed to the first waiter, which runs the
\* locked section.
LockAcquired(t) ==
  /\ pc[t] = "wait_lock"
  /\ UNCHANGED <<offlineVars, listVars>>
  /\ login_lock = NoTask
  /\ waiters # <<>>
  /\ Head(waiters) = t
  /\ Apply(LockedSection(t, [Cur EXCEPT !.waiters = Tail(@)], now, TRUE))
  /\ UNCHANGED <<devVars, clockVars, loopVars>>

\* A _logout without its try/except.
LogoutHandledNoExcept(outcome) ==
  IF outcome = "error" THEN "raised" ELSE "returned"

\* nvr.py 42-57: _logout's try/except turns every outcome of the request
\* into a normal return.  "ok": code 0; "rejected": another code; "error":
\* the request or the parsing of its answer raised.
LogoutHandled(outcome) == "returned"

\* What the device does with a Logout request: it frees the session when it
\* answers 0; a request that failed may or may not have reached it.
DeviceLogout(o, outcome, reached) ==
  IF outcome = "ok" \/ (outcome = "error" /\ reached)
  THEN sessions \ {o} ELSE sessions

\* The Logout request that task t sent from _login is answered (or fails).
LogoutResp(t, outcome, reached) ==
  /\ pc[t] = "logout_req"
  /\ UNCHANGED offlineVars
  /\ outcome \in {"ok", "rejected"} => reached
  /\ sessions' = DeviceLogout(out_tok[t], outcome, reached)
  /\ UNCHANGED <<nextTok, clockVars>>
  /\ IF LogoutHandled(outcome) = "returned"
     THEN /\ Apply(FirstAttempt(t, [Cur EXCEPT !.ev.logout = outcome]))
          /\ UNCHANGED <<loopVars, listVars>>
     ELSE Return(t, [Release(t, Cur) EXCEPT !.ev.login = "failed",
                                           !.ev.after = "logout",
                                           !.ev.logout = outcome],
                 "login_failed", 0)

\* A retry loop without its break.
RetriesAfterAnyFailure(outcome) == TRUE

\* nvr.py 96-98 and 115-116: which failed attempts leave the for loop
\* running.  "http": the request raised or raise_for_status did (continue);
\* "slot": rspCode -5; "other": any other answer with code # 0 (break).
RetriesAfter(outcome) == outcome \in {"http", "slot"}

\* A loop that makes one attempt more.
OneAttemptMore(n) == n <= LOGIN_RETRIES

\* nvr.py 70: for attempt in range(1, _LOGIN_RETRIES + 1): after attempt n
\* the loop has another one to make.
MoreAttempts(n) == n < LOGIN_RETRIES

\* The Login request of task t is answered (nvr.py 95-118).
LoginResp(t, outcome, lease) ==
  /\ pc[t] = "login_req"
  /\ UNCHANGED offlineVars
  /\ UNCHANGED clockVars
  /\ IF outcome = "ok"
     THEN /\ nextTok <= MaxLogins
          /\ sessions' = sessions \cup {nextTok}
          /\ nextTok' = nextTok + 1
          /\ LET s == Wrote(t, [Cur EXCEPT !.token = nextTok,
                                           !.token_ttl = lease,
                                           !.token_time = now,
                                           !.invalidated = FALSE,
                                           !.ev.login = "stored",
                                           !.ev.after = outcome,
                                           !.ev.attempt = attempt[t]])
                 r == Release(t, s)
             IN /\ Apply([r EXCEPT !.tok[t] = r.token,
                                   !.pc[t] = ReqPc(r.cmd[t]),
                                   !.attempt[t] = 0, !.slept[t] = 0,
                                   !.out_tok[t] = NoToken])
                /\ UNCHANGED <<loopVars, listVars>>
     ELSE /\ lease = DEFAULT_TTL
          /\ UNCHANGED devVars
          /\ LET s == [Cur EXCEPT !.ev.after = outcome,
                                  !.ev.attempt = attempt[t],
                                  !.ev.byLoop = (t = Main /\ run = "running")]
             IN IF RetriesAfter(outcome) /\ MoreAttempts(attempt[t])
                THEN /\ Apply([s EXCEPT !.attempt[t] = @ + 1,
                                        !.pc[t] = "login_sleep",
                                        !.ev.login = "retry"])
                     /\ UNCHANGED <<loopVars, listVars>>
                ELSE Return(t, [Release(t, s) EXCEPT !.ev.login = "failed"],
                            "login_failed", 0)

\* nvr.py 72-74: asyncio.sleep(_LOGIN_RETRY_DELAY), made before every attempt
\* but the first, ends; the next Login request is sent.  slept: the seconds
\* this login sequence has slept.
LoginSleepDone(t) ==
  /\ pc[t] = "login_sleep"
  /\ UNCHANGED <<offlineVars, listVars>>
  /\ Apply([Cur EXCEPT !.pc[t] = "login_req",
                       !.slept[t] = @ + LOGIN_RETRY_DELAY])
  /\ UNCHANGED <<devVars, clockVars, loopVars>>

\* nvr.py 222-223: only rspCode -6 resets the issue time.
Invalidates(outcome) == outcome = "auth"

\* nvr.py 209-225: the Snap request of task t is answered.  "image": an
\* image body of `size` bytes (the size is used by run_capture only);
\* "auth": rspCode -6; "transient": another rspCode or none that parses;
\* "http": the request or raise_for_status raised.
SnapResp(t, outcome, size) ==
  /\ pc[t] = "snap_req"
  /\ UNCHANGED offlineVars
  /\ (outcome # "image" \/ t # Main \/ run # "running") => size = 0
  /\ UNCHANGED <<devVars, clockVars>>
  /\ IF outcome = "image"
     THEN Return(t, Cur, "ok", size)
     ELSE IF Invalidates(outcome)
          THEN Return(t, Wrote(t, [Cur EXCEPT !.token_time = 0,
                                       !.invalidated = (token # NoToken),
                                       !.ev.authFor = tok[t]]),
                      "snap_failed", 0)
          ELSE Return(t, Cur, "snap_failed", 0)

\* time.monotonic() advances.
Tick(dt) ==
  /\ ticks < MaxTicks
  /\ UNCHANGED <<offlineVars, listVars>>
  /\ now' = now + dt
  /\ ticks' = ticks + 1
  /\ Apply(Cur)
  /\ UNCHANGED <<devVars, loopVars>>

\* nvr.py 229-230 and 37-48 (__main__.py 42-59: __aexit__, after the body
\* has ended): aclose calls _logout.
Close ==
  /\ \A t \in Tasks : pc[t] = "idle"
  /\ UNCHANGED <<offlineVars, listVars>>
  /\ client_open
  /\ closeRes = "none"
  /\ run # "running"
  /\ UNCHANGED <<devVars, clockVars, loopVars>>
  /\ LET s == [Cur EXCEPT !.closeHeld =
                            IF token # NoToken THEN "yes" ELSE "no"]
     IN IF LogoutSends(s)
        THEN Apply(LogoutBegin(Main, [s EXCEPT !.closeLogouts = @ + 1],
                               "close_req"))
        ELSE Apply([s EXCEPT !.pc[Main] = "closed", !.client_open = FALSE,
                             !.closeRes = "returned"])

\* nvr.py 49-57 then 231: the Logout request sent by aclose is answered (or
\* fails); the HTTP client is closed.
CloseResp(outcome, reached) ==
  /\ pc[Main] = "close_req"
  /\ UNCHANGED <<offlineVars, listVars>>
  /\ outcome \in {"ok", "rejected"} => reached
  /\ sessions' = DeviceLogout(out_tok[Main], outcome, reached)
  /\ UNCHANGED <<nextTok, clockVars, loopVars>>
  /\ IF LogoutHandled(outcome) = "returned"
     THEN Apply([Cur EXCEPT !.pc[Main] = "closed", !.client_open = FALSE,
                            !.closeRes = "returned",
                            !.closeOutcome = outcome,
                            !.out_tok[Main] = NoToken])
     ELSE Apply([Cur EXCEPT !.pc[Main] = "closed", !.closeRes = "raised",
                            !.closeOutcome = outcome,
                            !.out_tok[Main] = NoToken])

\* capture.py 64-82: run_capture is called; it makes the channel
\* directories, then the while test, then the first capture of the first
\* pass.
StartRun ==
  /\ run = "off"
  /\ UNCHANGED <<offlineVars, listVars>>
  /\ pc[Main] = "idle"
  /\ client_open
  /\ UNCHANGED <<devVars, clockVars, stop, counts, total_bytes, files,
                 nDone, stopIn>>
  /\ frame_dirs' = {DirName(c) : c \in Channels}
  /\ IF ~LoopContinues(stop)
     THEN /\ run' = "returned"
          /\ Apply(Cur)
          /\ UNCHANGED <<ch, passNo, attempted, nAttempts>>
     ELSE /\ run' = "running"
          /\ passNo' = 1
          /\ BeginCapture(Cur, 1)

\* capture.py 87 then 80: the pause between channels ends.
PauseDone ==
  /\ pc[Main] = "pause"
  /\ UNCHANGED <<offlineVars, listVars>>
  /\ UNCHANGED <<devVars, clockVars, run, stop, passNo, counts, total_bytes,
                 files, nDone, frame_dirs, stopIn>>
  /\ IF ch < NumChannels
     THEN BeginCapture(Cur, ch + 1)
     ELSE /\ Apply([Cur EXCEPT !.pc[Main] = "wait"])
          /\ UNCHANGED <<ch, attempted, nAttempts>>

\* capture.py 111-117 then 76: the inter-pass wait ends because the stop
\* event is set (wait_for returns as soon as the event is set); the while
\* test ends the loop.
WaitStop ==
  /\ pc[Main] = "wait"
  /\ UNCHANGED <<offlineVars, listVars>>
  /\ stop
  /\ ~LoopContinues(stop)
  /\ run' = "returned"
  /\ Apply([Cur EXCEPT !.pc[Main] = "idle"])
  /\ UNCHANGED <<devVars, clockVars, stop, ch, passNo, counts, total_bytes,
                 files, attempted, nAttempts, nDone, frame_dirs, stopIn>>

\* capture.py 113-114 then 76-82: the wait times out; the next pass starts.
WaitTimeout ==
  /\ pc[Main] = "wait"
  /\ UNCHANGED <<offlineVars, listVars>>
  /\ LoopContinues(stop)
  /\ passNo < MaxPasses
  /\ passNo' = passNo + 1
  /\ BeginCapture(Cur, 1)
  /\ UNCHANGED <<devVars, clockVars, run, stop, counts, total_bytes, files,
                 nDone, frame_dirs, stopIn>>

\* __main__.py 24-25 and 52-55: a signal handler or the duration timer sets
\* the stop event; stopIn notes where the capture loop was at that moment
\* (not yet called, inside a pass, or in the wait between two passes).
SetStop ==
  /\ ~stop
  /\ UNCHANGED <<offlineVars, listVars>>
  /\ run \in {"off", "running"}
  /\ stop' = TRUE
  /\ stopIn' = IF run = "off" THEN "before"
               ELSE IF pc[Main] = "wait" THEN "wait" ELSE "pass"
  /\ Apply(Cur)
  /\ UNCHANGED <<devVars, clockVars, run, ch, passNo, counts, total_bytes,
                 files, attempted, nAttempts, nDone, frame_dirs>>

LogoutOutcomes == {"ok", "rejected", "error"}
LoginOutcomes == {"ok", "slot", "other", "http"}
SnapOutcomes == {"image", "auth", "transient", "http"}

NvrStep ==
  \/ \E t \in Tasks, o \in LogoutOutcomes, r \in BOOLEAN : LogoutResp(t, o, r)
  \/ \E t \in Tasks, o \in LoginOutcomes, l \in Leases : LoginResp(t, o, l)
  \/ \E t \in Tasks : LoginSleepDone(t)
  \/ \E t \in Tasks, o \in SnapOutcomes, z \in ImageSizes : SnapResp(t, o, z)
  \/ Close
  \/ \E o \in LogoutOutcomes, r \in BOOLEAN : CloseResp(o, r)

\* Several coroutines share the object and call capture_snapshot.
Next ==
  \/ \E t \in Tasks : Call(t)
  \/ \E t \in Tasks : LockAcquired(t)
  \/ \E dt \in TickSteps : Tick(dt)
  \/ NvrStep

Spec == Init /\ [][Next]_vars

\* cmd_capture: one coroutine runs run_capture, then the object is closed.
\* The few passes of a run take seconds: the clock stays where it was when
\* the run began, and a credential goes stale by a short lease or by an
\* invalidation, not by the passing of time.
NextCapture ==
  \/ StartRun
  \/ PauseDone
  \/ WaitStop
  \/ WaitTimeout
  \/ SetStop
  \/ NvrStep

SpecCapture == InitCapture /\ [][NextCapture]_vars

\* The same run under the event loop's scheduling: a coroutine whose await
\* is over is resumed, every request to the device is answered or fails,
\* and every sleep ends.
SpecCaptureLive == SpecCapture /\ WF_vars(NextCapture)

\* -------------------------------------------------------------- frame names
\* capture.py 46: strftime("%Y%m%d_%H%M%S_%f")[:-3] writes every field of
\* the time with a fixed width, zero-padded, the most significant first.
\* Here a time is written as two decimal digits.
Fmt(ts) == <<ts \div 10, ts % 10>>

\* The order of Python's str and Path values: the first position where two
\* names differ decides, and a proper prefix is the smaller.
RECURSIVE LexLess(_, _)
LexLess(a, b) ==
  IF b = <<>> THEN FALSE
  ELSE IF a = <<>> THEN TRUE
  ELSE IF Head(a) # Head(b) THEN Head(a) < Head(b)
  ELSE LexLess(Tail(a), Tail(b))

\* stitch.py 60: sorted(frame_dir.glob("*.jpg")).
RECURSIVE Sorted(_)
Sorted(names) ==
  IF names = {} THEN <<>>
  ELSE LET m == CHOOSE x \in names : \A y \in names \ {x} : LexLess(x, y)
       IN <<m>> \o Sorted(names \ {m})

\* A Python slice seq[start::step], start counted from 1.
RECURSIVE SliceFrom(_, _, _)
SliceFrom(seq, i, step) ==
  IF i > Len(seq) THEN <<>>
  ELSE <<seq[i]>> \o SliceFrom(seq, i + step, step)

\* A selection that keeps the last frame of every group of n.
StrideFromGroupEnd(frames, n) == SliceFrom(frames, n, n)

\* stitch.py 65: frames[::every_n_frames].
Stride(frames, n) == SliceFrom(frames, 1, n)

\* --------------------------------------------------------------- run_stitch
\* Times of the frames a channel directory may hold.
FrameStamps == 9..(8 + MaxFrames)
Strides == 1..MaxStride

\* stitch.py 144 and 60-63: the first channel directory from the i-th on
\* that holds frames (one without frames is skipped with a warning); 0 when
\* there is none.
RECURSIVE NextWithFrames(_)
NextWithFrames(i) ==
  IF i > Len(channel_dirs) THEN 0
  ELSE IF channel_dirs[i] # {} THEN i
  ELSE NextWithFrames(i + 1)

\* stitch.py 144-154 and 60-115: the for loop goes on from the i-th channel
\* directory.  _encode_channel sorts and selects the frames, writes the
\* concat file and starts ffmpeg; tmp: the temporary files left so far.
EncodeFrom(i, tmp) ==
  LET j == NextWithFrames(i)
  IN IF j = 0
     THEN /\ stitch' = "returned"
          /\ st_idx' = Len(channel_dirs)
          /\ selected' = <<>>
          /\ tmp_files' = tmp
     ELSE /\ stitch' = "encoding"
          /\ st_idx' = j
          /\ selected' = Stride(Sorted(channel_dirs[j]), every_n_frames)
          /\ tmp_files' = tmp \cup {j}

\* The arguments of run_stitch and what is on disk when it is called.
InitStitch ==
  /\ InitAt({10})
  /\ FramesOff
  /\ ListOff
  /\ frames_base \in BOOLEAN
  /\ \E n \in 0..MaxDirs :
       channel_dirs \in [1..n -> {{Fmt(ts) : ts \in F} : F \in SUBSET FrameStamps}]
  /\ every_n_frames \in Strides
  /\ stitch = "off"
  /\ st_idx = 0
  /\ selected = <<>>
  /\ tmp_files = {}
  /\ videos = {}
  /\ st_cause = "none"

\* stitch.py 130-146: run_stitch is called.
StitchStart ==
  /\ stitch = "off"
  /\ UNCHANGED <<nvrVars, devVars, clockVars, loopVars, frameVars, listVars>>
  /\ UNCHANGED <<frames_base, channel_dirs, every_n_frames, videos, st_cause>>
  /\ IF ~frames_base \/ channel_dirs = <<>>
     THEN /\ stitch' = "returned"
          /\ UNCHANGED <<st_idx, selected, tmp_files>>
     ELSE EncodeFrom(1, tmp_files)

EncoderOutcomes == {"ok", "nonzero", "exception"}

\* The concat file is removed only when the encoder succeeded.
UnlinkAfterSuccess(tmp, j, outcome) == IF outcome = "ok" THEN tmp \ {j} ELSE tmp

\* stitch.py 126-127: the finally clause unlinks the concat file of the
\* channel directory j, however the try block ended.
FinallyUnlink(tmp, j, outcome) == tmp \ {j}

\* stitch.py 110-127 then 144-152: the encoder of the channel directory
\* st_idx has ended.  "ok": exit status 0, both outputs written; "nonzero":
\* another exit status (no output is taken to be left behind); "exception":
\* starting or awaiting the process raised.  The finally clause removes the
\* concat file; run_stitch has no try around _encode_channel, so an error
\* raised there ends run_stitch.
EncoderExit(outcome) ==
  /\ stitch = "encoding"
  /\ UNCHANGED <<nvrVars, devVars, clockVars, loopVars, frameVars, listVars>>
  /\ UNCHANGED <<frames_base, channel_dirs, every_n_frames>>
  /\ st_cause' = outcome
  /\ IF outcome = "ok"
     THEN /\ videos' = videos \cup {<<st_idx, "full">>, <<st_idx, "720p">>}
          /\ EncodeFrom(st_idx + 1, FinallyUnlink(tmp_files, st_idx, outcome))
     ELSE /\ stitch' = "raised"
          /\ tmp_files' = FinallyUnlink(tmp_files, st_idx, outcome)
          /\ UNCHANGED <<videos, st_idx, selected>>

NextStitch ==
  \/ StitchStart
  \/ \E o \in EncoderOutcomes : EncoderExit(o)

SpecStitch == InitStitch /\ [][NextStitch]_vars

\* ------------------------------------------- the frames of one channel
\* __main__.py 21-58: a capture run starts (the first one, or the process
\* was restarted); starting up and logging in takes time.  The directory is
\* kept as it is (capture.py 69: mkdir(exist_ok=True)).
RunStarts ==
  /\ runs < MaxRuns
  /\ wall < MaxWall
  /\ runs' = runs + 1
  /\ wall' = wall + 1
  /\ elapsed' = TRUE
  /\ UNCHANGED <<written, frame_dir, setbacks>>
  /\ UNCHANGED <<nvrVars, devVars, clockVars, loopVars, stitchVars, listVars>>

\* capture.py 46-47: a snapshot of the channel has arrived; it is written
\* under the name made of the wall-clock time (write_bytes replaces a file
\* of that name).  Two captures of a channel are at least the 0.5 s pause
\* apart (capture.py 87), or a start-up apart.
WriteFrame ==
  /\ runs >= 1
  /\ elapsed
  /\ Len(written) < MaxFrames
  /\ written' = Append(written, Fmt(wall))
  /\ frame_dir' = frame_dir \cup {Fmt(wall)}
  /\ elapsed' = FALSE
  /\ UNCHANGED <<wall, setbacks, runs>>
  /\ UNCHANGED <<nvrVars, devVars, clockVars, loopVars, stitchVars, listVars>>

\* capture.py 87 and 112: time passes while the loop sleeps.
Elapse(d) ==
  /\ wall + d <= MaxWall
  /\ wall' = wall + d
  /\ elapsed' = TRUE
  /\ UNCHANGED <<written, frame_dir, setbacks, runs>>
  /\ UNCHANGED <<nvrVars, devVars, clockVars, loopVars, stitchVars, listVars>>

\* capture.py 46: datetime.now() is the local wall-clock time, which is not
\* monotonic: it is set back at the end of daylight saving time and when the
\* clock is corrected.
ClockBack(d) ==
  /\ setbacks < MaxSetBacks
  /\ wall - d >= 0
  /\ wall' = wall - d
  /\ setbacks' = setbacks + 1
  /\ UNCHANGED <<written, frame_dir, elapsed, runs>>
  /\ UNCHANGED <<nvrVars, devVars, clockVars, loopVars, stitchVars, listVars>>

WallSteps == {1, 2}

NextFrames ==
  \/ RunStarts
  \/ WriteFrame
  \/ \E d \in WallSteps : Elapse(d)
  \/ \E d \in WallSteps : ClockBack(d)

SpecFrames == Init /\ [][NextFrames]_vars

\* ------------------------------------------------- get_online_channels
\* The "name" key of a channel's entry in the device's status list: none,
\* or a name.
StatusNames == {<<>>, <<"dev">>}

\* nvr.py 156: the entries of the status list that are online, in the
\* device's order, from channel c on.
RECURSIVE OnlineFrom(_)
OnlineFrom(c) ==
  IF c > NumChannels THEN <<>>
  ELSE (IF dev_status[c].online
        THEN <<[channel |-> c, name |-> dev_status[c].name,
                enriched |-> "no"]>>
        ELSE <<>>) \o OnlineFrom(c + 1)

\* The object is new; the device has some status list.
InitList ==
  /\ InitAt({10})
  /\ StitchOff
  /\ FramesOff
  /\ dev_status \in [Channels -> [online : BOOLEAN, name : StatusNames]]
  /\ listing = "off"
  /\ listed = <<>>
  /\ lst_i = 0
  /\ det_name = <<>>

\* nvr.py 140-150: get_online_channels is called (__main__.py 45).
ListStart ==
  /\ listing = "off"
  /\ pc[Main] = "idle"
  /\ client_open
  /\ listing' = "running"
  /\ Apply(EnsureToken(Main, [Cur EXCEPT !.cmd[Main] = "GetChannelstatus"],
                       now))
  /\ UNCHANGED <<dev_status, listed, lst_i, det_name>>
  /\ UNCHANGED <<devVars, clockVars, loopVars, offlineVars>>

StatusOutcomes == {"ok", "error"}

\* nvr.py 151-162: GetChannelstatus is answered.  "error": the request
\* raised or the code is not 0: get_online_channels raises.  "ok": the
\* online entries are kept and the first one's detail fetch starts.
StatusResp(outcome) ==
  /\ pc[Main] = "status_req"
  /\ UNCHANGED <<devVars, clockVars, loopVars, offlineVars>>
  /\ UNCHANGED <<dev_status, det_name>>
  /\ LET s == Leave(Main, Cur)
         done == [s EXCEPT !.pc[Main] = "idle", !.cmd[Main] = "Snap"]
     IN IF outcome # "ok"
        THEN /\ listing' = "raised"
             /\ UNCHANGED <<listed, lst_i>>
             /\ Apply(done)
        ELSE /\ listed' = OnlineFrom(1)
             /\ IF OnlineFrom(1) = <<>>
                THEN /\ listing' = "returned"
                     /\ UNCHANGED lst_i
                     /\ Apply(done)
                ELSE /\ lst_i' = 1
                     /\ UNCHANGED listing
                     /\ Apply(EnsureToken(Main,
                                          [s EXCEPT !.cmd[Main] = "GetOsd"],
                                          now))

OsdOutcomes == {"named", "unnamed", "error"}

\* nvr.py 180-191: GetOsd is answered.  "named": with an OSD name;
\* "unnamed": without one, the name defaults to ch<channel>; then GetEnc is
\* sent.  "error": the request raised.
OsdResp(outcome) ==
  /\ pc[Main] = "osd_req"
  /\ UNCHANGED <<devVars, clockVars, loopVars, offlineVars>>
  /\ IF outcome = "error"
     THEN EnrichDone(Leave(Main, Cur), FALSE, <<>>)
     ELSE /\ det_name' = IF outcome = "named" THEN <<"osd">>
                         ELSE <<"ch", listed[lst_i].channel>>
          /\ Apply([Cur EXCEPT !.pc[Main] = "enc_req"])
          /\ UNCHANGED <<dev_status, listing, listed, lst_i>>

EncOutcomes == {"ok", "error"}

\* nvr.py 193-200 then 163-166: GetEnc is answered; the detail is returned
\* and merged into the channel's dict, or the request raised.
EncResp(outcome) ==
  /\ pc[Main] = "enc_req"
  /\ UNCHANGED <<devVars, clockVars, loopVars, offlineVars>>
  /\ EnrichDone(Leave(Main, Cur), outcome = "ok", det_name)

\* cmd_capture and cmd_test list the channels once, right after the object
\* is made.
NextList ==
  \/ ListStart
  \/ \E o \in StatusOutcomes : StatusResp(o)
  \/ \E o \in OsdOutcomes : OsdResp(o)
  \/ \E o \in EncOutcomes : EncResp(o)
  \/ \E t \in Tasks, o \in LogoutOutcomes, r \in BOOLEAN : LogoutResp(t, o, r)
  \/ \E t \in Tasks, o \in LoginOutcomes, l \in Leases : LoginResp(t, o, l)
  \/ \E t \in Tasks : LoginSleepDone(t)

SpecList == InitList /\ [][NextList]_vars

\* ------------------------------------------------------------- properties
LoginPcs == {"logout_req", "login_req", "login_sleep"}
InLogin == {t \in Tasks : pc[t] \in LoginPcs}

\* C1 as stated: of the callers that find the credential stale or absent,
\* one logs in and every caller that queued for the lock returns the token
\* without logging in itself (stated for the default lease, under which a
\* stored credential is fresh).
C1_WaiterNeverLogsIn ==
  ~(ev.start.set /\ ev.start.waited /\ token_ttl = DEFAULT_TTL)

\* C1, amended: at most one login sequence is in progress at any time, and
\* it holds the lock; a caller that queued for the lock logs in itself only
\* when, at its re-check, no credential is held or the held one has
\* age > ttl - 300, and otherwise returns the held token, which is never
\* None, without logging in.
C1_OneLoginAtATime ==
  /\ Cardinality(InLogin) <= 1
  /\ \A t \in InLogin : login_lock = t
  /\ (ev.start.set /\ ev.start.waited)
       => (~ev.start.held \/ ev.start.slack < 0)
  /\ (ev.ret.set /\ ev.ret.waited) => ev.ret.held
  /\ \A t \in Tasks : pc[t] = "snap_req" => tok[t] # NoToken

\* A caller that queued for the lock has returned the token that another
\* caller's login stored, without logging in.
C1_Witness ==
  /\ ev.ret.set /\ ev.ret.waited /\ ev.ret.held
  /\ \E t \in Tasks : pc[t] = "snap_req" /\ tok[t] = token

\* C2 as stated: no login sequence starts while the held credential's age is
\* within ttl - 300, and a call made when age >= ttl - 300 never returns the
\* held token without a login.
C2_RefreshAtOrPastBoundary ==
  /\ (ev.start.set /\ ev.start.held) => ev.start.slack <= 0
  /\ ev.ret.set => ev.ret.slack > 0

\* C2, amended: a login sequence starts with a credential held only when
\* age > ttl - 300, and the held token is returned without a login only
\* when age <= ttl - 300: at age = ttl - 300 exactly the token is returned.
C2_RefreshPastBoundary ==
  /\ (ev.start.set /\ ev.start.held) => ev.start.slack < 0
  /\ ev.ret.set => (ev.ret.held /\ ev.ret.slack >= 0)

\* The held token has been returned at age = ttl - 300 exactly.
C2_Witness == ev.ret.set /\ ev.ret.held /\ ev.ret.slack = 0

\* C3 as stated: a further Login request follows only an attempt answered
\* with rspCode -5.
C3_RetryOnlyOnSlotLimit == ev.login = "retry" => ev.after = "slot"

\* C3, amended: a further Login request follows only an attempt answered
\* with rspCode -5 or one that failed at the HTTP level; an attempt answered
\* with any other error code ends the sequence at once with an error.
C3_RetryOnSlotLimitOrHttp ==
  /\ ev.login = "retry" => ev.after \in {"slot", "http"}
  /\ ev.after = "other" => ev.login = "failed"
  /\ \A t \in Tasks : pc[t] = "login_sleep" => attempt[t] \in 2..LOGIN_RETRIES

\* An attempt answered with another error code has ended a login sequence.
C3_Witness == ev.login = "failed" /\ ev.after = "other"

\* C4: after a snapshot answered with rspCode -6, the next _ensure_token
\* call never returns the held token without logging in.
C4_AuthFailureForcesLogin == ~(ev.ret.set /\ ev.ret.inval)

C6_WritesUnderLock == ~ev.unlocked

\* C7: aclose never raises, whatever the Logout request's outcome; it sends
\* one Logout request when a token is held and none otherwise, and leaves no
\* token held.
C7_CloseNeverRaises ==
  /\ closeRes # "raised"
  /\ closeHeld = "no" => closeLogouts = 0
  /\ closeHeld = "yes" => closeLogouts = 1
  /\ closeLogouts <= 1
  /\ closeRes = "returned"
       => (token = NoToken /\ ~client_open /\ pc[Main] = "closed")

\* aclose has returned although its Logout request failed.
C7_Witness ==
  closeRes = "returned" /\ closeOutcome = "error" /\ closeLogouts = 1

\* C8: a login sequence that fails during a capture of run_capture ends
\* run_capture with an error.
C8_AuthFailureEndsRun == (ev.login = "failed" /\ ev.byLoop) => run = "raised"

\* C9: run_capture never raises because of a failed capture, and every pass
\* attempts each channel once, in order, whichever captures failed.
C9_EveryChannelAttempted ==
  /\ run # "raised"
  /\ Len(attempted) <= NumChannels
  /\ attempted = [i \in 1..Len(attempted) |-> i]
  /\ run = "running" => ch = Len(attempted)
  /\ pc[Main] = "wait" => Len(attempted) = NumChannels
  /\ (run = "returned" /\ passNo > 0) => Len(attempted) = NumChannels

\* The first pass is over: the first channel's capture failed (no file was
\* written for it) and every channel was attempted.
C9_Witness ==
  /\ pc[Main] = "wait" /\ passNo = 1 /\ files[1] = 0
  /\ Len(attempted) = NumChannels

\* C10: once the stop event is set, no further channel of the pass is
\* attempted.
C10_StopEndsPass == ~(ev.began > 1 /\ ev.stopped)

\* C11: once the stop event is set no new pass starts, and run_capture
\* returns; when the stop event is set during the wait between two passes,
\* the loop's next step is the return, with no further capture attempt.
C11_StopEndsRun ==
  /\ [][stop => passNo' = passNo]_vars
  /\ [][(stop /\ pc[Main] = "wait")
         => (run' = "returned" /\ nAttempts' = nAttempts)]_vars
  /\ (stop /\ run = "running") ~> (run = "returned")

\* The stop event was set during the wait after a pass, and run_capture has
\* returned.
C11_Witness == run = "returned" /\ stopIn = "wait" /\ passNo >= 1

\* Requests to the device that have been sent and not yet answered.
Outstanding == {t \in Tasks : pc[t] \in {"snap_req", "login_req", "logout_req"}}

\* C12: during run_capture at most one snapshot request (and at most one
\* request of any kind) is outstanding, it belongs to the channel the loop
\* is at, and a capture begins only when every earlier one has completed.
C12_OneRequestAtATime ==
  run = "running" =>
    /\ Cardinality({t \in Tasks : pc[t] = "snap_req"}) <= 1
    /\ Cardinality(Outstanding) <= 1
    /\ Outstanding \subseteq {Main}
    /\ nAttempts = (passNo - 1) * NumChannels + ch
    /\ nAttempts - nDone = IF pc[Main] \in {"pause", "wait"} THEN 0 ELSE 1

\* The first snapshot request of the second pass is outstanding, after every
\* capture of the first pass has completed.
C12_Witness ==
  /\ run = "running" /\ pc[Main] = "snap_req"
  /\ passNo = 2 /\ ch = 1 /\ nDone = NumChannels

\* C13: when the stop event was set during the wait after the P-th pass and
\* run_capture has returned, it has made exactly N * P capture attempts, has
\* made N distinct channel directories, and has written at most P frame
\* files into each.
C13_AttemptsDirsFiles ==
  (run = "returned" /\ stopIn = "wait") =>
    /\ nAttempts = NumChannels * passNo
    /\ nDone = nAttempts
    /\ Cardinality(frame_dirs) = NumChannels
    /\ \A c \in Channels : files[c] <= passNo

\* The stop event was set during the wait after the second pass; one capture
\* of the first channel had failed.
C13_Witness ==
  /\ run = "returned" /\ stopIn = "wait" /\ passNo = 2
  /\ nAttempts = 2 * NumChannels /\ files[1] = 1

\* C14: an encoder that exits non-zero for one channel directory does not
\* make run_stitch raise, and the directories after it are still processed.
C14_EncoderFailureSkipsChannel == st_cause = "nonzero" => stitch # "raised"

\* The frames of the channel directory being encoded, as sorted(glob) lists
\* them.
CurFrames == Sorted(channel_dirs[st_idx])

\* C15: with stride S >= 1 over the F >= 1 sorted frames of a directory, the
\* selection holds exactly ceil(F/S) frames, those at the sorted indices
\* 0, S, 2S, ... in that order; with S = 1 it holds every frame.
C15_StrideSelection ==
  stitch = "encoding" =>
    LET F == Len(CurFrames)
        S == every_n_frames
    IN /\ F >= 1 /\ S >= 1
       /\ {CurFrames[i] : i \in 1..F} = channel_dirs[st_idx]
       /\ \A i \in 1..F, j \in 1..F :
            i < j => CurFrames[i][1] * 10 + CurFrames[i][2]
                       < CurFrames[j][1] * 10 + CurFrames[j][2]
       /\ Len(selected) = (F + S - 1) \div S
       /\ \A k \in 1..Len(selected) : selected[k] = CurFrames[(k - 1) * S + 1]
       /\ S = 1 => selected = CurFrames

\* Three frames and stride 2: the first and the third are selected.
C15_Witness ==
  /\ stitch = "encoding" /\ every_n_frames = 2
  /\ Len(CurFrames) = 3 /\ selected = <<CurFrames[1], CurFrames[3]>>

\* C16: the names in a channel directory, sorted lexicographically, are the
\* names of the captures in capture order: no capture took the name of an
\* earlier one, and a later capture's name sorts after an earlier one's.
C16_NamesSortInCaptureOrder == Sorted(frame_dir) = written

\* C17: a login sequence sends at most 5 Login requests, each but the first
\* after a sleep of 30 s, holds the lock throughout, raises when the 5th
\* request fails too, and stores a token only when a request is answered
\* with code 0.
C17_BoundedLoginSequence ==
  /\ \A t \in Tasks :
       /\ attempt[t] <= LOGIN_RETRIES
       /\ pc[t] \in LoginPcs => login_lock = t
       /\ pc[t] = "login_req" =>
            /\ attempt[t] >= 1
            /\ slept[t] = (attempt[t] - 1) * LOGIN_RETRY_DELAY
  /\ ev.login = "retry" => ev.attempt < LOGIN_RETRIES
  /\ (ev.login = "failed" /\ ev.after \in {"slot", "http"})
       => ev.attempt = LOGIN_RETRIES
  /\ ev.login = "stored" => (ev.after = "ok" /\ token # NoToken)
  /\ token # NoToken => token < nextTok

\* The 5th Login request was answered with the slot-limit code, after four
\* sleeps: the sequence has ended with an error.
C17_Witness ==
  ev.login = "failed" /\ ev.after = "slot" /\ ev.attempt = LOGIN_RETRIES

\* C18: a login sequence that starts while a token is held first sends a
\* Logout request for that token and sends no Login request until that
\* request has ended; however it ends, the first Login request follows.
C18_LogoutBeforeLogin ==
  /\ (ev.start.set /\ ev.start.held) =>
       \E t \in Tasks :
         /\ pc[t] = "logout_req" /\ login_lock = t
         /\ out_tok[t] = ev.start.token /\ out_tok[t] \in logoutSent
         /\ token = NoToken
  /\ (ev.start.set /\ ~ev.start.held) =>
       \E t \in Tasks : pc[t] = "login_req" /\ attempt[t] = 1
  /\ \A t \in Tasks : pc[t] = "logout_req" => attempt[t] = 0
  /\ ev.logout # "none" =>
       \E t \in Tasks :
         pc[t] = "login_req" /\ attempt[t] = 1 /\ login_lock = t

\* The Logout request of a login sequence has failed, and the first Login
\* request of the sequence is out.
C18_Witness ==
  /\ ev.logout = "error"
  /\ \E t \in Tasks : pc[t] = "login_req" /\ attempt[t] = 1

\* C19: a channel's frame count is the number of frame files written for it
\* in this run: every successful capture adds one to it, every failed one
\* leaves it alone.
C19_CountIsFilesWritten == \A c \in Channels : counts[c] = files[c]

\* The online channels of the device's status list, in its order.
OnlineIds == SelectSeq([c \in Channels |-> c], LAMBDA c : dev_status[c].online)

\* C20 as stated: the listing is never aborted by a failed detail fetch, the
\* result holds every online channel in the device's order, and a channel
\* whose detail fetch failed is named ch<id>.
C20_FailedNamedChId ==
  /\ listing = "raised" => lst_i = 0
  /\ listing = "returned" =>
       /\ [i \in 1..Len(listed) |-> listed[i].channel] = OnlineIds
       /\ \A i \in 1..Len(listed) :
            listed[i].enriched = "failed"
              => listed[i].name = <<"ch", listed[i].channel>>

\* C20, amended: the detail fetches are made one channel at a time, a failed
\* one never aborts the listing, the result holds every online channel in
\* the device's order, and a channel whose detail fetch failed keeps the
\* name of its status entry when it has one and is named ch<id> otherwise.
C20_FailedKeepsStatusName ==
  /\ listing = "raised" => lst_i = 0
  /\ pc[Main] \in {"osd_req", "enc_req"} =>
       /\ listing = "running" /\ lst_i \in 1..Len(listed)
       /\ \A i \in 1..Len(listed) :
            (listed[i].enriched = "no") = (i >= lst_i)
  /\ listing = "returned" =>
       /\ [i \in 1..Len(listed) |-> listed[i].channel] = OnlineIds
       /\ \A i \in 1..Len(listed) :
            LET e == listed[i]
            IN /\ e.enriched \in {"yes", "failed"}
               /\ e.name # <<>>
               /\ e.enriched = "failed" =>
                    e.name = SetDefault(dev_status[e.channel].name, e.channel)
               /\ e.enriched = "yes" => e.name \in {<<"osd">>, <<"ch", e.channel>>}

\* The listing has returned two channels: the detail fetch of the first
\* failed and it kept its status name, the second was enriched after it.
C20_Witness ==
  /\ listing = "returned" /\ Len(listed) = 2
  /\ listed[1].enriched = "failed" /\ listed[1].name = <<"dev">>
  /\ listed[2].enriched = "yes"

\* C21: once _encode_channel has finished for a channel directory, by
\* encoder success, by a non-zero exit status or by an exception raised while
\* the encoder ran, its temporary concat file is gone: the only temporary
\* file that can exist is the one of the channel being encoded right now.
C21_TmpFileRemoved ==
  tmp_files \subseteq (IF stitch = "encoding" THEN {st_idx} ELSE {})

\* Witness: the encoder of a channel raised, its concat file had been
\* written, and no temporary file is left.
C21_Witness ==
  /\ stitch = "raised"
  /\ st_cause = "exception"
  /\ st_idx >= 1
  /\ selected # <<>>
  /\ tmp_files = {}

\* C22: when a login sequence fails, no credential is held afterwards (the
\* one held before it was forgotten by _logout) and the lock has been
\* released; and _ensure_token never returns without a held token, nor a
\* token that was logged out: a call made after the failure cannot return the
\* old token, it starts a login sequence.  (When the capture loop goes
\* straight on to its next channel, that next login sequence has already
\* taken the lock again.)
C22_FailedLoginLeavesNoCredential ==
  /\ ev.login = "failed" =>
       /\ token = NoToken
       /\ login_lock = NoTask \/ (ev.start.set /\ ~ev.start.held)
  /\ ev.ret.set => (ev.ret.held /\ ev.ret.token \notin logoutSent)

\* Witness: a login sequence starts with no token held and the lock free for
\* it, after the only token ever issued was logged out by a login sequence
\* that did not obtain another one.
C22_Witness ==
  /\ ev.start.set
  /\ ~ev.start.held
  /\ logoutSent = {1}
  /\ nextTok = 2
  /\ token = NoToken

\* C23: an auth failure (rspCode -6) answering a Snap request that was sent
\* with token T marks the credential stale only while T is still the held
\* token: it never resets the issue time of a newer token, obtained by a
\* login that completed while the request was in flight.
C23_StaleAuthFailureSparesNewToken ==
  (ev.authFor # NoToken /\ token # NoToken) => token = ev.authFor

\* nvr.py 127/133: the age that _ensure_token computed for the token it
\* held when it started the login sequence (_logout leaves _token_ttl
\* alone, so the lease is still the one of that token).
StartAge == (token_ttl - TOKEN_REFRESH_MARGIN) - ev.start.slack

\* C24: a credential that a login has just stored is fresh whatever lease
\* the device reported: _ensure_token never starts a login sequence for a
\* held token of age 0.
C24_NewTokenIsFresh ==
  (ev.start.set /\ ev.start.held) => StartAge > 0

=============================================================================
